---- MODULE Spec2Model ----
(***************************************************************************)
(* web2epub (src/main.ts, lines 381-700): the pipeline that turns a URL    *)
(* into an e-book.  The model follows the program await by await: every    *)
(* action is the code that runs between two suspension points.  Promises   *)
(* the code does not await (createDir, generateContent, generateMetadata)  *)
(* are operations in flight, kept in `pending`, which complete at any      *)
(* later moment; a rejection of one of them is an unhandled rejection and  *)
(* ends the process, as does a rejection of a top-level await.             *)
(***************************************************************************)
EXTENDS Integers, Sequences, FiniteSets, TLC

\* Bounds of the model: createEpub invocations over all process runs, and
\* the characters after the origin of a URL given to extractDocId alone.
MaxRuns == 2
MaxPathLen == 3

EXTRACTED_HTML_FILENAME == "extracted.html"
RAW_HTML_FILENAME == "document-raw.html"
RAW_METADATA_FILENAME == "metadata-raw.yaml"
METADATA_FILENAME == "metadata.yaml"

-----------------------------------------------------------------------------
(* Inputs: the lines of stdin or the command-line argument.                *)

\* A string whose characters the program looks at is a sequence of
\* characters.  A URL is such a sequence whose first element stands for
\* everything up to the start of the path: "http://h/" and "http://g/"
\* (scheme, host and the slash that starts the path), or "data:" (a scheme
\* with no authority).  Anything else does not parse.
SpecialOrigins == {"http://h/", "http://g/"}
OpaqueOrigin == "data:"

RECURSIVE StripTrailingSpaces(_)
\* URL.parse drops the spaces at the end of its input
StripTrailingSpaces(s) ==
    IF s # <<>> /\ s[Len(s)] = " "
    THEN StripTrailingSpaces(SubSeq(s, 1, Len(s) - 1))
    ELSE s

RECURSIVE PathState(_, _)
\* URL.parse, the path of a hierarchical URL: "?" starts the query, a
\* backslash is a separator when the scheme is special, a space is
\* percent-encoded
PathState(s, special) ==
    IF s = <<>> \/ s[1] = "?" THEN <<>>
    ELSE (CASE s[1] = "\\" /\ special -> <<"/">>
            [] s[1] = " " -> <<"%", "2", "0">>
            [] OTHER -> <<s[1]>>) \o PathState(Tail(s), special)

RECURSIVE OpaquePathState(_)
\* URL.parse, the path of a URL with no authority and no leading slash: "?"
\* starts the query; a space stays a space, except right before the query
OpaquePathState(s) ==
    IF s = <<>> \/ s[1] = "?" THEN <<>>
    ELSE (IF s[1] = " " /\ Len(s) > 1 /\ s[2] = "?"
          THEN <<"%", "2", "0">> ELSE <<s[1]>>) \o OpaquePathState(Tail(s))

\* URL.parse(url).pathname as a sequence of characters, <<"null">> standing
\* for a URL that does not parse.
Null == <<"null">>
URLparse(url) ==
    LET rest == StripTrailingSpaces(Tail(url))
    IN  CASE url[1] \in SpecialOrigins -> <<"/">> \o PathState(rest, TRUE)
          [] url[1] = OpaqueOrigin ->
                IF rest # <<>> /\ rest[1] = "/"
                THEN PathState(rest, FALSE)
                ELSE OpaquePathState(rest)
          [] OTHER -> Null

\* The URLs the pipeline is run on: two with the same last path segment, one
\* whose path ends in "/" and one that does not parse.
Urls == {<<"http://h/", "a">>, <<"http://g/", "b", "/", "a">>,
         <<"http://h/">>, <<"no url">>}

\* A line of the input: a URL or an empty line.
Lines == Urls \cup {<<>>}

-----------------------------------------------------------------------------
(* Pure functions.                                                         *)

RECURSIVE Join(_)
\* the string of a sequence of characters
Join(s) == IF s = <<>> THEN "" ELSE s[1] \o Join(Tail(s))

RECURSIVE SplitFrom(_, _, _)
\* String.prototype.split(sep): cur is the segment being read
SplitFrom(s, sep, cur) ==
    IF s = <<>> THEN <<cur>>
    ELSE IF s[1] = sep THEN <<cur>> \o SplitFrom(Tail(s), sep, <<>>)
    ELSE SplitFrom(Tail(s), sep, Append(cur, s[1]))

Split(s, sep) == SplitFrom(s, sep, <<>>)

Reverse(s) == [i \in 1..Len(s) |-> s[Len(s) + 1 - i]]

RECURSIVE ReplaceAll(_, _, _)
\* String.prototype.replaceAll with a string pattern: the pattern is matched
\* literally, character by character, never as a regular expression.
ReplaceAll(s, pat, rep) ==
    IF Len(s) < Len(pat) THEN s
    ELSE IF SubSeq(s, 1, Len(pat)) = pat
         THEN rep \o ReplaceAll(SubSeq(s, Len(pat) + 1, Len(s)), pat, rep)
         ELSE <<s[1]>> \o ReplaceAll(Tail(s), pat, rep)

\* extractDocId broken: the whole path, not its last segment, is the identity
extractDocId_WholePath(url) ==
    ReplaceAll(Tail(URLparse(url)), <<"/">>, <<"_">>)

\* extractDocId of a URL that parses: the identity, character by character
extractDocId(url) ==
    LET candidate == Reverse(Split(URLparse(url), "/"))[1]
    IN  ReplaceAll(ReplaceAll(ReplaceAll(ReplaceAll(candidate,
            <<"\\", "s">>, <<"_">>), <<"/">>, <<"_">>), <<"\\", "?">>, <<>>),
            <<":">>, <<>>)

\* path.join of two segments: an empty segment is dropped
pathJoin(a, b) == IF b = "" THEN a ELSE IF a = "" THEN b ELSE a \o "/" \o b

WorkDirOf(docId) == pathJoin("workspaces", Join(docId))
RawFile(docId) == pathJoin(WorkDirOf(docId), RAW_HTML_FILENAME)
ExtractedFile(docId) == pathJoin(WorkDirOf(docId), EXTRACTED_HTML_FILENAME)
MetadataFile(docId) == pathJoin(WorkDirOf(docId), METADATA_FILENAME)
RawMetadataFile(docId) == pathJoin(WorkDirOf(docId), RAW_METADATA_FILENAME)
EpubFile(docId) == pathJoin("epubs", Join(docId) \o ".epub")

\* the directory a path lies in; "" is the working directory
ParentOf(dir) == IF dir \in {"epubs", "workspaces"} THEN "" ELSE "workspaces"

-----------------------------------------------------------------------------
(* File contents.                                                          *)

\* what a server or the browser hands back for a URL
PageKinds == {"article", "thin"}
Page(url, kind) == [url |-> url, kind |-> kind]
EmptyPage == [url |-> <<>>, kind |-> "empty"]

\* Readability.parse on the raw content: TRUE when it returns a record, FALSE
\* when it returns null.  An error page has text of its own.
Readable(raw) == raw.kind \in {"article", "errorpage"}

\* Readability.parse: the fields of the record that generateMetadata reads.
\* A field the document does not give is null in the record.  The article
\* names its author and language but no date of publication; an error page
\* names none of the three.
ParseResult(raw) ==
    LET given == IF raw.kind = "article" THEN "string" ELSE "null"
    IN  [byline |-> given, title |-> "string", publishedTime |-> "null",
         lang |-> given]

\* stringify of jsr:@std/yaml on a flat object: one line "key: value" for
\* every key of the object, a null value being written as the word null
stringify(object) == {<<k, object[k]>> : k \in DOMAIN object}

\* generateContent: excerpt and content of the parse result, then the source
\* line with the URL of this run
ExtractedHtml(raw, url) == [raw |-> raw, url |-> url, yaml |-> {}]
\* generateMetadata, lines 542-550: author, title, date and lang of the parse
\* result, as YAML
Metadata(raw) ==
    [raw |-> raw, url |-> <<>>,
     yaml |-> stringify([author |-> ParseResult(raw).byline,
                         title |-> ParseResult(raw).title,
                         date |-> ParseResult(raw).publishedTime,
                         lang |-> ParseResult(raw).lang])]

\* operations in flight
MkdirOp(dirname) ==
    [op |-> "mkdir", path |-> dirname, docId |-> <<>>,
     data |-> [raw |-> EmptyPage, url |-> <<>>, yaml |-> {}]]
WriteOp(path, docId, data) ==
    [op |-> "write", path |-> path, docId |-> docId, data |-> data]

-----------------------------------------------------------------------------
VARIABLES
    flags,              \* parseArgs: firefox and profileUrl
    firefoxDownloader,  \* TRUE when the module-level object was constructed
    seleniumDriver,     \* "undefined", "live" or "quit"
    pc,                 \* position of the top-level module code
    linesLeft,          \* input lines not yet read by the loop
    run,                \* the createEpub invocation under way (or the last)
    dirs,               \* directories that exist
    files,              \* path -> content, for the files that exist
    pending,            \* operations in flight that nobody awaits
    hist                \* history: counters and the previous fetch stage

vars == <<flags, firefoxDownloader, seleniumDriver, pc, linesLeft, run, dirs,
          files, pending, hist>>

NoPrev == [valid |-> FALSE, workDir |-> "", url |-> <<>>, firefox |-> FALSE,
           didWork |-> FALSE, rawAfter |-> FALSE]

IdleRun == [url |-> <<>>, docId |-> <<>>, workDir |-> "", stage |-> "idle",
            rawAtCall |-> FALSE, contentPresent |-> "unknown",
            didWork |-> FALSE, response |-> "none", body |-> EmptyPage,
            result |-> "none", issued |-> {}, converter |-> "none",
            outcome |-> "none", fetchDone |-> FALSE, rawAfter |-> FALSE]

\* the state of a fresh process on an empty file system; the other arguments
\* of the command line (--profile, the URL) are drawn where the code reads
\* them
Init ==
    /\ flags \in [firefox : BOOLEAN, profileUrl : BOOLEAN]
    /\ firefoxDownloader = FALSE
    /\ seleniumDriver = "undefined"
    /\ pc = "resolve"
    /\ linesLeft = 0
    /\ run = IdleRun
    /\ pending = {}
    /\ dirs = {}
    /\ files = << >>
    /\ hist = [runs |-> 0, sessions |-> 0, quits |-> 0, navs |-> 0,
               prev |-> NoPrev]

-----------------------------------------------------------------------------
(* Start-up: lines 665-676.                                                *)

\* what findFirefoxProfile can do: return a directory, return undefined, or
\* reject because Deno.readDir fails
ProfileOutcomes == {"found", "undefined", "throws"}

\* lines 670-672; profile is TRUE when --profile was given
ResolveProfile ==
    /\ pc = "resolve"
    /\ \E profile \in BOOLEAN :
          IF flags.firefox /\ profile /\ ~flags.profileUrl
          THEN \E o \in ProfileOutcomes :
                   /\ flags' = [flags EXCEPT !.profileUrl = (o = "found")]
                   /\ pc' = IF o = "throws" THEN "crashed" ELSE "setup"
          ELSE flags' = flags /\ pc' = "setup"
    /\ UNCHANGED <<firefoxDownloader, seleniumDriver, linesLeft, run, dirs,
                   files, pending, hist>>

\* lines 674-676
SetupDownloader ==
    /\ pc = "setup"
    /\ firefoxDownloader' = flags.profileUrl
    /\ pc' = "args"
    /\ UNCHANGED <<flags, seleniumDriver, linesLeft, run, dirs, files,
                   pending, hist>>

-----------------------------------------------------------------------------
(* createEpub, from its call to its first suspension: lines 600-612 and    *)
(* the start of fetchContent, 505-507.                                     *)

\* fileExists broken: it never finds the file
fileExists_Never(path) == FALSE
\* fileExists broken: it answers for directories only
fileExists_Dirs(path) == path \in dirs

\* lines 449-459: lstat succeeds, or rejects with NotFound
fileExists(path) == path \in DOMAIN files

\* the fetch stage the history keeps: the last one that returned or threw,
\* remembered when it did network or browser work
NextPrev ==
    IF run.fetchDone
    THEN IF run.didWork
         THEN [valid |-> TRUE, workDir |-> run.workDir, url |-> run.url,
               firefox |-> flags.firefox, didWork |-> TRUE,
               rawAfter |-> run.rawAfter]
         ELSE NoPrev
    ELSE hist.prev

\* lines 461-471, called without await: the mkdir is in flight.  A mkdir of
\* a directory that exists rejects with AlreadyExists, which createDir
\* swallows: it changes nothing and is not kept.
createDir(dirname) == IF dirname \in dirs THEN {} ELSE {MkdirOp(dirname)}

createEpub(url) ==
    LET base == [IdleRun EXCEPT !.url = url, !.outcome = "running"]
    IN  /\ hist.runs < MaxRuns
        /\ hist' = [hist EXCEPT !.runs = @ + 1, !.prev = NextPrev]
        /\ IF URLparse(url) = Null
           THEN \* extractDocId throws; the two mkdirs die with the process
                /\ run' = [base EXCEPT !.stage = "extractDocId",
                                       !.outcome = "threw"]
                /\ pc' = "crashed"
                /\ pending' = {}
           ELSE LET docId == extractDocId(url)
                IN  /\ run' = [base EXCEPT
                                 !.docId = docId,
                                 !.workDir = WorkDirOf(docId),
                                 !.rawAtCall = (RawFile(docId) \in DOMAIN files),
                                 !.stage = "lstat"]
                    /\ pc' = "createEpub"
                    /\ pending' = pending \cup
                          createDir("epubs") \cup createDir("workspaces")
                          \cup createDir(WorkDirOf(docId))
        /\ UNCHANGED <<flags, firefoxDownloader, seleniumDriver, dirs, files>>

\* lines 678-684: a positional argument was given and is the URL; the loop
\* over stdin is then skipped
MainSingle ==
    /\ pc = "args"
    /\ linesLeft' = 0
    /\ \E url \in Lines :
          IF url # <<>> THEN createEpub(url)
          ELSE /\ pc' = "main"
               /\ UNCHANGED <<flags, firefoxDownloader, seleniumDriver, run,
                              dirs, files, pending, hist>>

\* lines 686-688: no positional argument; stdin is read and split into lines
ReadStdin ==
    /\ pc = "args"
    /\ linesLeft' \in 0..(MaxRuns - hist.runs)
    /\ pc' = "main"
    /\ UNCHANGED <<flags, firefoxDownloader, seleniumDriver, run, dirs, files,
                   pending, hist>>

\* lines 689-693: one iteration of the loop over the lines
MainBatch ==
    /\ pc = "main" /\ linesLeft > 0
    /\ linesLeft' = linesLeft - 1
    /\ \E line \in Lines :
          IF line # <<>> THEN createEpub(line)
          ELSE UNCHANGED <<flags, firefoxDownloader, seleniumDriver, pc, run,
                           dirs, files, pending, hist>>

-----------------------------------------------------------------------------
(* fetchContent: lines 500-525, with callFirefox (623-631) and             *)
(* SeleniumFirefoxDownloader.fetchUrl (413-422).                           *)

\* a rejection of the awaited createEpub: the top-level await rejects, the
\* process ends with an uncaught error and what was in flight is lost
Throws(r) ==
    /\ run' = [r EXCEPT !.outcome = "threw"]
    /\ pc' = "crashed"
    /\ pending' = {}

\* fetchUrl broken: a session is built for every URL
NeedsBuild_Always == TRUE

\* line 414: the session is built only when the field is not set
NeedsBuild == seleniumDriver = "undefined"

\* lines 507-520: the lstat of fileExists has completed
FetchContent_lstat ==
    /\ pc = "createEpub" /\ run.stage = "lstat"
    /\ IF fileExists(RawFile(run.docId))
       THEN \* "exists, nothing to do": parseDocument starts its read
            run' = [run EXCEPT !.contentPresent = "yes", !.stage = "read",
                               !.fetchDone = TRUE, !.rawAfter = TRUE]
       ELSE IF flags.firefox
       THEN IF firefoxDownloader
            THEN run' = [run EXCEPT !.contentPresent = "no",
                           !.didWork = TRUE,
                           !.stage = IF NeedsBuild THEN "build" ELSE "get"]
            ELSE \* callFirefox returns "", which is written
                 run' = [run EXCEPT !.contentPresent = "no",
                           !.body = EmptyPage, !.stage = "writeRaw"]
       ELSE \* fetch(url) is issued
            run' = [run EXCEPT !.contentPresent = "no", !.didWork = TRUE,
                               !.stage = "fetch"]
    /\ UNCHANGED <<flags, firefoxDownloader, seleniumDriver, pc, linesLeft,
                   dirs, files, pending, hist>>

\* lines 415-417: Builder.build() has settled
FetchUrl_build ==
    /\ pc = "createEpub" /\ run.stage = "build"
    /\ \/ /\ seleniumDriver' = "live"
          /\ hist' = [hist EXCEPT !.sessions = @ + 1]
          /\ run' = [run EXCEPT !.stage = "get"]
          /\ UNCHANGED <<pc, pending>>
       \/ /\ Throws([run EXCEPT !.fetchDone = TRUE])
          /\ UNCHANGED <<seleniumDriver, hist>>
    /\ UNCHANGED <<flags, firefoxDownloader, linesLeft, dirs, files>>

\* line 419: seleniumDriver.get(url) has settled
FetchUrl_get ==
    /\ pc = "createEpub" /\ run.stage = "get"
    /\ \/ /\ hist' = [hist EXCEPT !.navs = @ + 1]
          /\ run' = [run EXCEPT !.stage = "source"]
          /\ UNCHANGED <<pc, pending>>
       \/ /\ Throws([run EXCEPT !.fetchDone = TRUE])
          /\ UNCHANGED hist
    /\ UNCHANGED <<flags, firefoxDownloader, seleniumDriver, linesLeft, dirs,
                   files>>

\* lines 421, 626-630, 514-515: getPageSource has settled; an empty or
\* undefined source becomes "", and the write of the raw content is issued
FetchUrl_getPageSource ==
    /\ pc = "createEpub" /\ run.stage = "source"
    /\ \/ /\ \E kind \in PageKinds \cup {"empty"} :
                run' = [run EXCEPT
                          !.body = IF kind = "empty" THEN EmptyPage
                                   ELSE Page(run.url, kind),
                          !.stage = "writeRaw"]
          /\ UNCHANGED <<pc, pending>>
       \/ Throws([run EXCEPT !.fetchDone = TRUE])
    /\ UNCHANGED <<flags, firefoxDownloader, seleniumDriver, linesLeft, dirs,
                   files, hist>>

\* what fetch(url) can do: resolve with a success status and a body, with a
\* non-success status and a body, with no body, or reject
FetchOutcomes == {"ok_article", "ok_thin", "non_success", "no_body",
                  "network_error"}

\* lines 520-524: fetch(url) has settled
FetchContent_fetch ==
    /\ pc = "createEpub" /\ run.stage = "fetch"
    /\ \E o \in FetchOutcomes :
          CASE o = "network_error" ->
                 Throws([run EXCEPT !.response = o, !.fetchDone = TRUE])
            [] o = "no_body" ->
                 \* body == null: nothing is written, fetchContent returns
                 /\ run' = [run EXCEPT !.response = o, !.stage = "read",
                                       !.fetchDone = TRUE,
                                       !.rawAfter =
                                           (RawFile(run.docId) \in DOMAIN files)]
                 /\ UNCHANGED <<pc, pending>>
            [] OTHER ->
                 /\ run' = [run EXCEPT
                              !.response = IF o = "non_success" THEN o ELSE "ok",
                              !.body = Page(run.url,
                                            CASE o = "ok_article" -> "article"
                                              [] o = "ok_thin" -> "thin"
                                              [] OTHER -> "errorpage"),
                              !.stage = "writeRaw"]
                 /\ UNCHANGED <<pc, pending>>
    /\ UNCHANGED <<flags, firefoxDownloader, seleniumDriver, linesLeft, dirs,
                   files, hist>>

\* lines 515 and 523: Deno.writeFile(rawContentFile, ...) has settled; it
\* rejects with NotFound when the workspace directory is not there
FetchContent_writeFile ==
    /\ pc = "createEpub" /\ run.stage = "writeRaw"
    /\ IF run.workDir \in dirs
       THEN /\ files' = (RawFile(run.docId) :> run.body) @@ files
            /\ run' = [run EXCEPT !.issued = @ \cup {RAW_HTML_FILENAME},
                                  !.stage = "read", !.fetchDone = TRUE,
                                  !.rawAfter = TRUE]
            /\ UNCHANGED <<pc, pending>>
       ELSE /\ Throws([run EXCEPT !.fetchDone = TRUE])
            /\ UNCHANGED files
    /\ UNCHANGED <<flags, firefoxDownloader, seleniumDriver, linesLeft, dirs,
                   hist>>

-----------------------------------------------------------------------------
(* parseDocument (527-539), the rest of createEpub (614-620) and           *)
(* generateEpub (473-498).                                                 *)

\* "Done." is logged and createEpub resolves: the caller goes on
Done(r) ==
    /\ run' = [r EXCEPT !.stage = "done", !.outcome = "done"]
    /\ pc' = "main"

\* createEpub broken: the later stages run whatever the result
ResultNotNull_Always(result) == TRUE
\* createEpub broken: the test is inverted
ResultNotNull_Inverted(result) == result = "null"

\* line 615: the test that guards the later stages
ResultNotNull(result) == result # "null"

\* lines 532-538 and 615-618: readTextFile of the raw content has settled.
\* A record starts generateContent and generateMetadata, which nobody
\* awaits, and then the converter.
ParseDocument_read ==
    /\ pc = "createEpub" /\ run.stage = "read"
    /\ IF RawFile(run.docId) \notin DOMAIN files
       THEN \* readTextFile rejects with NotFound
            Throws(run)
       ELSE LET raw == files[RawFile(run.docId)]
                result == IF Readable(raw) THEN "record" ELSE "null"
                r == [run EXCEPT !.result = result]
            IN  IF ResultNotNull(result)
                THEN /\ pending' = pending \cup
                          {WriteOp(ExtractedFile(run.docId), run.docId,
                                   ExtractedHtml(raw, run.url)),
                           WriteOp(MetadataFile(run.docId), run.docId,
                                   Metadata(raw))}
                     /\ run' = [r EXCEPT
                                  !.issued = @ \cup {EXTRACTED_HTML_FILENAME,
                                                     METADATA_FILENAME},
                                  !.converter = "spawned",
                                  !.stage = "pandoc"]
                     /\ pc' = pc
                ELSE Done(r) /\ pending' = pending
    /\ UNCHANGED <<flags, firefoxDownloader, seleniumDriver, linesLeft, dirs,
                   files, hist>>

\* what the converter can do: exit 0, exit with another code, or fail to
\* start (Deno.Command rejects)
ConverterOutcomes == {"exit0", "nonzero", "cannot_invoke"}

\* lines 494-497 and 620: cmd.output() has settled.  The converter has read
\* the two artifacts as they were when it ran and, on exit 0, has written the
\* e-book; it exits with another code when an input or the output directory
\* is missing.  generateEpub does not look at the code: it returns true.
GenerateEpub_output ==
    /\ pc = "createEpub" /\ run.stage = "pandoc"
    /\ \E o \in ConverterOutcomes :
          CASE o = "cannot_invoke" ->
                 /\ Throws([run EXCEPT !.converter = o])
                 /\ UNCHANGED files
            [] o = "nonzero" ->
                 /\ Done([run EXCEPT !.converter = o])
                 /\ UNCHANGED <<files, pending>>
            [] OTHER ->
                 /\ ExtractedFile(run.docId) \in DOMAIN files
                 /\ MetadataFile(run.docId) \in DOMAIN files
                 /\ "epubs" \in dirs
                 /\ files' = (EpubFile(run.docId) :>
                                [html |-> files[ExtractedFile(run.docId)],
                                 meta |-> files[MetadataFile(run.docId)]])
                             @@ files
                 /\ Done([run EXCEPT !.converter = o,
                                     !.issued = @ \cup {"epub"}])
                 /\ pending' = pending
    /\ UNCHANGED <<flags, firefoxDownloader, seleniumDriver, linesLeft, dirs,
                   hist>>

-----------------------------------------------------------------------------
(* Operations in flight: createDir (461-471), and the writes of            *)
(* generateContent (586) and generateMetadata (552, 559).                  *)

Alive == pc \in {"createEpub", "main", "cleanup", "quitting", "drain"}

\* an unhandled rejection ends the process
Unhandled ==
    /\ pc' = "crashed"
    /\ pending' = {}

\* lines 463-464 and 466-469: Deno.mkdir has succeeded, or has rejected with
\* AlreadyExists, which createDir swallows
CreateDir_settled ==
    /\ Alive
    /\ \E op \in pending :
          /\ op.op = "mkdir"
          /\ op.path \in dirs \/ ParentOf(op.path) \in dirs \cup {""}
          /\ dirs' = dirs \cup {op.path}
          /\ pending' = pending \ {op}
    /\ UNCHANGED <<flags, firefoxDownloader, seleniumDriver, pc, linesLeft,
                   run, files, hist>>

\* lines 466-468: Deno.mkdir has rejected with another error, NotFound when
\* the parent is missing or any error of the file system; createDir rethrows
\* and nobody handles the rejection
CreateDir_rejected ==
    /\ Alive
    /\ \E op \in pending : op.op = "mkdir" /\ op.path \notin dirs
    /\ Unhandled
    /\ UNCHANGED <<flags, firefoxDownloader, seleniumDriver, linesLeft, run,
                   dirs, files, hist>>

\* lines 552-559 and 586: a Deno.writeFile of generateContent or
\* generateMetadata has settled; after metadata.yaml, generateMetadata goes
\* on to write metadata-raw.yaml
WriteFile_settled ==
    /\ Alive
    /\ \E op \in pending :
          /\ op.op = "write"
          /\ IF WorkDirOf(op.docId) \in dirs
             THEN /\ files' = (op.path :> op.data) @@ files
                  /\ pending' = (pending \ {op}) \cup
                        IF op.path = MetadataFile(op.docId)
                        THEN {WriteOp(RawMetadataFile(op.docId), op.docId,
                                      op.data)}
                        ELSE {}
                  /\ pc' = pc
             ELSE Unhandled /\ files' = files
    /\ UNCHANGED <<flags, firefoxDownloader, seleniumDriver, linesLeft, run,
                   dirs, hist>>

-----------------------------------------------------------------------------
(* The end of the module code: lines 696-699, and the exit.                *)

\* the input is used up: the module code reaches the cleanup
EndOfInput ==
    /\ pc = "main" /\ linesLeft = 0
    /\ pc' = "cleanup"
    /\ UNCHANGED <<flags, firefoxDownloader, seleniumDriver, linesLeft, run,
                   dirs, files, pending, hist>>

\* lines 697-699 and 424-428: destructor quits only a session that was built
Cleanup ==
    /\ pc = "cleanup"
    /\ pc' = IF firefoxDownloader /\ seleniumDriver # "undefined"
             THEN "quitting" ELSE "drain"
    /\ UNCHANGED <<flags, firefoxDownloader, seleniumDriver, linesLeft, run,
                   dirs, files, pending, hist>>

\* line 426: seleniumDriver.quit() has settled
Destructor_quit ==
    /\ pc = "quitting"
    /\ seleniumDriver' = "quit"
    /\ hist' = [hist EXCEPT !.quits = @ + 1]
    /\ pc' = "drain"
    /\ UNCHANGED <<flags, firefoxDownloader, linesLeft, run, dirs, files,
                   pending>>

\* the process exits once nothing is in flight
Exit ==
    /\ pc = "drain" /\ pending = {}
    /\ pc' = "exited"
    /\ UNCHANGED <<flags, firefoxDownloader, seleniumDriver, linesLeft, run,
                   dirs, files, pending, hist>>

\* the program is started again on the file system the earlier runs left
Restart ==
    /\ pc \in {"exited", "crashed"}
    /\ hist.runs < MaxRuns
    /\ flags' \in [firefox : BOOLEAN, profileUrl : BOOLEAN]
    /\ firefoxDownloader' = FALSE
    /\ seleniumDriver' = "undefined"
    /\ pc' = "resolve"
    /\ linesLeft' = 0
    /\ run' = IdleRun
    /\ pending' = {}
    /\ hist' = [hist EXCEPT !.sessions = 0, !.quits = 0, !.navs = 0,
                            !.prev = NextPrev]
    /\ UNCHANGED <<dirs, files>>

Next ==
    \/ ResolveProfile
    \/ SetupDownloader
    \/ MainSingle
    \/ ReadStdin
    \/ MainBatch
    \/ FetchContent_lstat
    \/ FetchUrl_build
    \/ FetchUrl_get
    \/ FetchUrl_getPageSource
    \/ FetchContent_fetch
    \/ FetchContent_writeFile
    \/ ParseDocument_read
    \/ GenerateEpub_output
    \/ CreateDir_settled
    \/ CreateDir_rejected
    \/ WriteFile_settled
    \/ EndOfInput
    \/ Cleanup
    \/ Destructor_quit
    \/ Exit
    \/ Restart

Spec == Init /\ [][Next]_vars

-----------------------------------------------------------------------------
(* extractDocId on its own: createEpub is called once, in a fresh process  *)
(* on an empty file system, on a URL drawn from all short ones.            *)

\* the characters of the part after the origin: a letter, the separators the
\* function names, a space, and the backslash of its patterns
PathChars == {"s", "/", ":", "?", " ", "\\"}

SeqsUpTo(n) == UNION {[1..k -> PathChars] : k \in 0..n}

DocIdInputs ==
    {<<o>> \o p : o \in {"http://h/", OpaqueOrigin, "no url"},
                  p \in SeqsUpTo(MaxPathLen)}

\* the URL is the positional argument (line 679)
InitDocId ==
    /\ flags = [firefox |-> FALSE, profileUrl |-> FALSE]
    /\ firefoxDownloader = FALSE
    /\ seleniumDriver = "undefined"
    /\ pc = "args"
    /\ linesLeft = 0
    /\ run \in {[IdleRun EXCEPT !.url = u] : u \in DocIdInputs}
    /\ pending = {}
    /\ dirs = {}
    /\ files = << >>
    /\ hist = [runs |-> 0, sessions |-> 0, quits |-> 0, navs |-> 0,
               prev |-> NoPrev]

\* lines 679-680 and 600-607: createEpub up to its first suspension
CallCreateEpub ==
    /\ pc = "args" /\ run.stage = "idle"
    /\ createEpub(run.url)
    /\ linesLeft' = linesLeft

SpecDocId == InitDocId /\ [][CallCreateEpub]_vars

-----------------------------------------------------------------------------
(* Properties.                                                             *)

Ended == pc \in {"exited", "crashed"}
FetchStages == {"build", "get", "source", "fetch", "writeRaw"}

\* C1: in batch mode a fatal error of one URL is caught by the driver: when
\* createEpub has thrown for a line of stdin and further lines remain, the
\* process has not died, so that the loop goes on to them.  (Lines remain
\* only when the input is stdin.)
C1_BatchContinuesAfterFatalError ==
    (run.outcome = "threw" /\ linesLeft > 0) => pc # "crashed"

\* C2: a run in which the browser session was started ends with the session
\* closed, by exactly one quit, whatever became of each URL.
C2_SessionClosedExactlyOnce ==
    (Ended /\ hist.sessions > 0) =>
        seleniumDriver = "quit" /\ hist.quits = 1

\* C3: when the raw-content artifact exists as fetchContent is called, the
\* call issues no network GET, builds no session, navigates nowhere and
\* writes no raw content, for either strategy.
C3_CachedRawMeansNoFetch ==
    run.rawAtCall =>
        /\ ~run.didWork
        /\ run.stage \notin FetchStages
        /\ RAW_HTML_FILENAME \notin run.issued

C3_Witness ==
    /\ run.rawAtCall /\ run.contentPresent = "yes" /\ run.stage = "read"
    /\ flags.firefox /\ firefoxDownloader

\* the fetch stage that has just ended follows one for the same workspace,
\* URL and strategy that did network or browser work
SameFetchTwice ==
    /\ run.fetchDone
    /\ hist.prev.valid
    /\ hist.prev.workDir = run.workDir
    /\ hist.prev.url = run.url
    /\ hist.prev.firefox = flags.firefox

\* C4, as claimed: two fetch stages in a row for the same workspace, URL and
\* strategy do network or browser work at most once in total, whatever the
\* first one's outcome.
C4_WorkAtMostOnceAnyOutcome ==
    SameFetchTwice => ~(hist.prev.didWork /\ run.didWork)

\* C4, amended: two fetch stages in a row for the same workspace, URL and
\* strategy do network or browser work at most once in total when the first
\* one left the raw-content artifact in the workspace.
C4_WorkAtMostOnceWhenRawLeft ==
    (SameFetchTwice /\ hist.prev.rawAfter) =>
        ~(hist.prev.didWork /\ run.didWork)

C4_Witness ==
    SameFetchTwice /\ hist.prev.rawAfter /\ hist.prev.didWork /\ ~run.didWork

\* C5: with --firefox and no downloader object, fetching a document that is
\* not cached fails: no raw content is written for it, nothing is fetched
\* and the later stages do not run.
C5_NoSessionFetchFails ==
    (flags.firefox /\ ~firefoxDownloader /\ run.contentPresent = "no") =>
        /\ RAW_HTML_FILENAME \notin run.issued
        /\ ~run.didWork
        /\ run.result = "none"
        /\ run.outcome # "done"

\* C6: when extraction returns null, this run issues no write of
\* extracted.html or metadata.yaml (metadata-raw.yaml is written only after
\* metadata.yaml, by the same generateMetadata), writes no e-book, does not
\* start the converter, and has reported "Done." for the URL.
C6_NullExtractionIsASkip ==
    run.result = "null" =>
        /\ run.issued \cap {EXTRACTED_HTML_FILENAME, METADATA_FILENAME,
                            "epub"} = {}
        /\ run.converter = "none"
        /\ run.outcome = "done"

C6_Witness ==
    run.result = "null" /\ run.outcome = "done" /\ run.response = "ok"

\* C7: with the direct strategy a non-success response is a fetch error: no
\* raw content is persisted from it and extraction does not run on it.
C7_NonSuccessIsFetchError ==
    run.response = "non_success" =>
        /\ RAW_HTML_FILENAME \notin run.issued
        /\ run.result = "none"
        /\ run.outcome # "done"

\* C8: when the converter exits with a non-zero code or cannot be started,
\* the URL is not reported as done: createEpub throws.
C8_ConverterFailureIsAnError ==
    run.converter \in {"nonzero", "cannot_invoke"} => run.outcome = "threw"

\* C9: a process builds at most one browser session, and the session is live
\* exactly from its build to its quit: a later browser fetch reuses it.
C9_AtMostOneSession ==
    /\ hist.sessions <= 1
    /\ (seleniumDriver = "live") <=> (hist.sessions - hist.quits = 1)
    /\ hist.navs > 0 => hist.sessions = 1

C9_Witness ==
    hist.navs = 2 /\ hist.sessions = 1 /\ seleniumDriver = "live"

\* C10: a createEpub whose raw content was cached at the call and whose
\* extraction is not null fetches nothing and leaves the raw content alone,
\* issues the writes of extracted.html and metadata.yaml, starts the
\* converter, and on exit 0 the e-book is written from the cached raw content.
C10_RerunRegeneratesFromCache ==
    (run.rawAtCall /\ run.result = "record") =>
        /\ ~run.didWork
        /\ RAW_HTML_FILENAME \notin run.issued
        /\ {EXTRACTED_HTML_FILENAME, METADATA_FILENAME} \subseteq run.issued
        /\ run.converter # "none"
        /\ run.converter = "exit0" =>
              /\ "epub" \in run.issued
              /\ files[EpubFile(run.docId)].html.raw = files[RawFile(run.docId)]
              /\ files[EpubFile(run.docId)].meta.raw = files[RawFile(run.docId)]

C10_Witness ==
    /\ run.rawAtCall /\ run.result = "record"
    /\ run.converter = "exit0" /\ run.outcome = "done"

\* the last segment of the path of a URL that parses
FinalSegment(url) ==
    LET segs == Split(URLparse(url), "/") IN segs[Len(segs)]

\* a segment with every whitespace character and slash replaced by "_" and
\* every "?" and ":" removed, character by character
Sanitized(seg) ==
    LET F[i \in 0..Len(seg)] ==
            IF i = 0 THEN <<>>
            ELSE F[i - 1] \o (CASE seg[i] \in {" ", "/"} -> <<"_">>
                                [] seg[i] \in {"?", ":"} -> <<>>
                                [] OTHER -> <<seg[i]>>)
    IN  F[Len(seg)]

\* extractDocId has returned for a URL whose last path segment is not empty
DocIdReturned ==
    /\ run.stage = "lstat"
    /\ FinalSegment(run.url) # <<>>

\* C11: for a URL that parses and whose last path segment is not empty, the
\* identity has no "/", ":", "?" or whitespace character in it, and it is
\* the last path segment with those characters replaced or removed.
C11_IdentityIsSanitizedSegment ==
    DocIdReturned =>
        /\ \A i \in 1..Len(run.docId) : run.docId[i] \notin {"/", ":", "?", " "}
        /\ run.docId = Sanitized(FinalSegment(run.url))

\* the keys of a YAML document
YamlKeys(yaml) == {line[1] : line \in yaml}

\* C12: a metadata.yaml that was written from an extraction record without
\* byline, date or language has no author, date or lang field at all.
C12_AbsentFieldsAreOmitted ==
    \A f \in DOMAIN files :
        \A field \in {<<"byline", "author">>, <<"publishedTime", "date">>,
                      <<"lang", "lang">>} :
            (f = MetadataFile(run.docId)
               /\ ParseResult(files[f].raw)[field[1]] = "null")
            => field[2] \notin YamlKeys(files[f].yaml)

\* a write of extracted.html or metadata.yaml of the workspace of this run is
\* in flight
ArtifactWriteInFlight ==
    \E op \in pending :
        /\ op.op = "write"
        /\ op.path \in {ExtractedFile(run.docId), MetadataFile(run.docId)}

\* C13: the converter runs after the writes of extracted.html and
\* metadata.yaml of the same createEpub have completed: when it has exited,
\* neither write is in flight, and an e-book it has made is made from the
\* content and the metadata this createEpub generated, not from older ones.
C13_ConverterAfterArtifactWrites ==
    /\ run.converter \in {"exit0", "nonzero"} => ~ArtifactWriteInFlight
    /\ run.converter = "exit0" =>
          LET raw == files[RawFile(run.docId)]
              epub == files[EpubFile(run.docId)]
          IN  /\ epub.html = ExtractedHtml(raw, run.url)
              /\ epub.meta = Metadata(raw)

\* fetchContent of this createEpub is under way: its existence check or one
\* of the later awaits of the fetch stage is in flight
FetchStageUnderWay ==
    pc = "createEpub" /\ run.stage \in {"lstat"} \cup FetchStages

\* C14: while the fetch stage of a document is under way, the directories
\* epubs, workspaces and the workspace of the document exist and no
\* directory creation is in flight.
C14_DirectoriesBeforeFetch ==
    FetchStageUnderWay =>
        /\ {"epubs", "workspaces", run.workDir} \subseteq dirs
        /\ \A op \in pending : op.op # "mkdir"

\* the raw-content artifacts of the workspaces of all URLs
RawFiles == {RawFile(extractDocId(u)) : u \in {v \in Urls : URLparse(v) # Null}}

C16_CreateDirFailureStopsBeforeFetch ==
    [][CreateDir_rejected =>
          /\ run.outcome = "running"
          /\ ~run.didWork
          /\ RAW_HTML_FILENAME \notin run.issued
          /\ run.result = "none"]_vars

\* C17: when extractDocId has returned for a URL whose path is empty or ends
\* in "/", the identity is not empty, the workspace is not the directory
\* workspaces itself and the e-book is not epubs/.epub.
C17_NoEmptyIdentity ==
    (run.stage = "lstat" /\ FinalSegment(run.url) = <<>>) =>
        /\ run.docId # <<>>
        /\ run.workDir # "workspaces"
        /\ EpubFile(run.docId) # "epubs/.epub"

\* C18: the URLs of a batch are processed strictly one after another: while
\* a createEpub is in its fetch stage or reads the raw content, whose writes
\* it awaits, no file write is in flight, since its own later writes are
\* not issued yet and those of the URL before it must have completed.
C18_NothingInFlightFromEarlierUrl ==
    (pc = "createEpub" /\ run.stage \in {"lstat", "read"} \cup FetchStages) =>
        \A op \in pending : op.op # "write"

\* C19: the browser session is built lazily.  A step that builds a session
\* is taken by a fetch with the browser strategy whose raw content was not
\* there at the call, in a process that has built none so far; a step that
\* quits a session quits one that was built; and a process that uses the
\* direct strategy has built and quit nothing.
C19_SessionIsBuiltLazily ==
    [][/\ hist'.sessions > hist.sessions =>
             /\ flags.firefox /\ firefoxDownloader
             /\ run.stage = "build"
             /\ ~run.rawAtCall /\ run.contentPresent = "no"
             /\ hist.sessions = 0 /\ seleniumDriver = "undefined"
       /\ hist'.quits > hist.quits =>
             hist.sessions = 1 /\ seleniumDriver = "live"
       /\ ~flags'.firefox =>
             /\ hist'.sessions = 0 /\ hist'.quits = 0
             /\ seleniumDriver' = "undefined"]_vars

\* a process with the browser strategy and a downloader has found the raw
\* content of its URL, has finished it and has exited: no session was built
\* and none was quit
C19_Witness ==
    /\ pc = "exited"
    /\ flags.firefox /\ firefoxDownloader
    /\ run.rawAtCall /\ run.outcome = "done"
    /\ hist.sessions = 0 /\ hist.quits = 0 /\ seleniumDriver = "undefined"

\* C20: when fetchContent has returned normally, with either strategy and
\* whatever the response, the raw content is in the workspace: the read of
\* parseDocument, which comes next, finds the file.
C20_RawExistsAfterFetchReturns ==
    (pc = "createEpub" /\ run.stage = "read") =>
        /\ RawFile(run.docId) \in DOMAIN files
        /\ run.rawAfter

\* the createEpub under way follows, for another URL with the same last path
\* segment, one whose fetch stage did the work and left the raw content
SameSegmentOtherUrl ==
    /\ hist.prev.valid /\ hist.prev.rawAfter
    /\ run.stage \notin {"idle", "extractDocId"}
    /\ hist.prev.url # run.url
    /\ FinalSegment(hist.prev.url) = FinalSegment(run.url)

\* C21: a URL processed after another one with the same last path segment
\* shares its workspace: it finds the raw content, fetches nothing and writes
\* no raw content; the content it extracts and the e-book the converter
\* makes come from the raw content the first URL fetched, and the e-book is
\* the file of the first URL's identity, written anew.
C21_SameSegmentSharesWorkspace ==
    SameSegmentOtherUrl =>
        /\ run.workDir = hist.prev.workDir
        /\ run.rawAtCall /\ ~run.didWork
        /\ run.stage \notin FetchStages
        /\ RAW_HTML_FILENAME \notin run.issued
        /\ run.result = "record" =>
              /\ files[RawFile(run.docId)].url = hist.prev.url
              /\ {EXTRACTED_HTML_FILENAME, METADATA_FILENAME}
                    \subseteq run.issued
        /\ run.converter = "exit0" =>
              /\ "epub" \in run.issued
              /\ EpubFile(run.docId) = EpubFile(extractDocId(hist.prev.url))
              /\ files[EpubFile(run.docId)].html.raw.url = hist.prev.url
              /\ files[EpubFile(run.docId)].meta.raw.url = hist.prev.url

C21_Witness ==
    /\ SameSegmentOtherUrl
    /\ run.converter = "exit0" /\ run.outcome = "done"
    /\ files[EpubFile(run.docId)].html.raw.url = hist.prev.url

====
